---- MODULE Spec2Model ----
(***************************************************************************)
(* QHttpServerResponse (src/src/httpserver/qhttpserverresponse.cpp): the   *)
(* response's private state (status code, body, header collection), its    *)
(* constructors, header operations, queries, move operations and write().  *)
(*                                                                         *)
(* Byte arrays used as header names and values are strings; a body is a    *)
(* sequence of byte values, so that its size is its length.                *)
(***************************************************************************)
EXTENDS Integers, Sequences, FiniteSets, TLC

\* ------------------------------------------------------------------ bounds
MaxHeaders == 3   \* most entries a header collection holds in the model
MaxBatch == 2     \* longest list handed to addHeaders / setHeaders
NumSlots == 2     \* response objects that exist side by side

\* -------------------------------------------------------- program constants
NullPtr == 0
Ok == 200
NotFound == 404

contentTypeHeader == "Content-Type"
contentLengthHeader == "Content-Length"
contentTypeXEmpty == "application/x-empty"
contentTypeTextHtml == "text/html"

ConnectedState == "ConnectedState"
SocketStates == {"UnconnectedState", "ConnectedState"}

\* ------------------------------------------------------- input domains
Hello == <<104, 101, 108, 108, 111>>
HelloWorld == <<104, 101, 108, 108, 111, 44, 32, 119, 111, 114, 108, 100>>
Bodies == {<< >>, HelloWorld}
StatusCodes == {Ok, NotFound}
MimeArgs == {"", "image/png"}
Pairs == {<<"X-A", "1">>, <<"X-A", "2">>, <<contentTypeHeader, "text/css">>,
          <<contentLengthHeader, "0">>}
Names == {p[1] : p \in Pairs}
BatchPairs == {<<"X-A", "1">>, <<"X-A", "2">>, <<contentTypeHeader, "text/css">>}
HeaderLists == UNION {[1..n -> BatchPairs] : n \in 0..MaxBatch}
FileNames == {"/nonexistent/path", "/index.html", "/empty"}

\* ----------------------------------------------------- collaborators
\* QMimeDatabase().mimeTypeForData(data).name().toLocal8Bit()
mimeTypeForData(data) ==
    IF data = << >> THEN "application/x-zerosize"
    ELSE IF data[1] = 60 THEN "text/html"
    ELSE "text/plain"

\* QMimeDatabase().mimeTypeForFileNameAndData(fileName, data).name().toLocal8Bit()
mimeTypeForFileNameAndData(fileName, data) ==
    IF fileName = "/index.html" THEN "text/html" ELSE mimeTypeForData(data)

\* QFile: which files open for reading, and what readAll() returns
fileExists(fileName) == fileName \in {"/index.html", "/empty"}
readAll(fileName) == IF fileName = "/index.html" THEN Hello ELSE << >>

\* QByteArray::number(n) for n >= 0: the decimal digits of n
Digit == <<"0", "1", "2", "3", "4", "5", "6", "7", "8", "9">>
RECURSIVE number(_)
number(n) == IF n < 10 THEN Digit[n + 1]
             ELSE number(n \div 10) \o Digit[(n % 10) + 1]

\* ------------------------------------------- the header collection
\* d->headers: an ordered multimap, a sequence of <<name, value>> entries
emplace(h, name, value) == Append(h, <<name, value>>)
erase(h, name) == SelectSeq(h, LAMBDA e : e[1] # name)
clear(h) == << >>
end(h) == Len(h) + 1
find(h, name) ==
    IF \E i \in 1..Len(h) : h[i][1] = name
    THEN CHOOSE i \in 1..Len(h) :
             h[i][1] = name /\ \A j \in 1..(i - 1) : h[j][1] # name
    ELSE end(h)
equal_range(h, name) == SelectSeq(h, LAMBDA e : e[1] = name)

\* ------------------------------------------- QHttpServerResponsePrivate
QHttpServerResponsePrivate(d, sc) ==
    [data |-> d, statusCode |-> sc, headers |-> << >>]

\* ------------------------------------------------- header operations
\* variant: the new entry replaces the entries stored under its name
addHeader_replaces(d, name, value) ==
    [d EXCEPT !.headers = emplace(erase(d.headers, name), name, value)]

addHeader(d, name, value) ==
    [d EXCEPT !.headers = emplace(d.headers, name, value)]

RECURSIVE addHeaders(_, _)
addHeaders(d, list) ==
    IF list = << >> THEN d
    ELSE addHeaders(addHeader(d, Head(list)[1], Head(list)[2]), Tail(list))

clearHeader(d, name) == [d EXCEPT !.headers = erase(d.headers, name)]

\* variant: the Content-Type entries survive
clearHeaders_keepsContentType(d) ==
    [d EXCEPT !.headers = equal_range(d.headers, contentTypeHeader)]

clearHeaders(d) == [d EXCEPT !.headers = clear(d.headers)]

\* variant: the entries stored under the name are not cleared
setHeader_noClear(d, name, value) == addHeader(d, name, value)

setHeader(d, name, value) == addHeader(clearHeader(d, name), name, value)

\* variant: the names of the whole batch are cleared first, then every pair
\* is added
RECURSIVE clearAll(_, _)
clearAll(d, list) ==
    IF list = << >> THEN d
    ELSE clearAll(clearHeader(d, Head(list)[1]), Tail(list))

setHeaders_clearFirst(d, list) == addHeaders(clearAll(d, list), list)

RECURSIVE setHeaders(_, _)
setHeaders(d, list) ==
    IF list = << >> THEN d
    ELSE setHeaders(setHeader(d, Head(list)[1], Head(list)[2]), Tail(list))

\* ------------------------------------------------------------ queries
hasHeader(d, header) == find(d.headers, header) # end(d.headers)

hasHeader2(d, name, value) ==
    LET range == equal_range(d.headers, name)
    IN \E i \in 1..Len(range) : range[i][2] = value

RECURSIVE appendSeconds(_, _)
appendSeconds(results, range) ==
    IF range = << >> THEN results
    ELSE appendSeconds(Append(results, Head(range)[2]), Tail(range))

headers(d, name) == appendSeconds(<< >>, equal_range(d.headers, name))

\* variant: no default when no Content-Type is stored
mimeType_noDefault(d) ==
    LET res == find(d.headers, contentTypeHeader)
    IN IF res = end(d.headers) THEN "" ELSE d.headers[res][2]

mimeType(d) ==
    LET res == find(d.headers, contentTypeHeader)
    IN IF res = end(d.headers) THEN contentTypeTextHtml
       ELSE d.headers[res][2]

data(d) == d.data

statusCode(d) == d.statusCode

\* ------------------------------------------------------- constructors
\* variant: the Content-Type header is set even for an empty mimeType
ExplicitCtor_alwaysSets(mime, bytes, status) ==
    setHeader(QHttpServerResponsePrivate(bytes, status), contentTypeHeader, mime)

ExplicitCtor(mime, bytes, status) ==
    LET d == QHttpServerResponsePrivate(bytes, status)
    IN IF mime # "" THEN setHeader(d, contentTypeHeader, mime) ELSE d

StatusCtor(status) == ExplicitCtor(contentTypeXEmpty, << >>, status)

ByteArrayCtor(bytes) == ExplicitCtor(mimeTypeForData(bytes), bytes, Ok)

\* variant: a file that cannot be opened is read as an empty file
fromFile_noOpenCheck(handles, fileName) ==
    LET opened == handles \cup {fileName}
        bytes == readAll(fileName)
        closed == opened \ {fileName}
        mime == mimeTypeForFileNameAndData(fileName, bytes)
    IN [response |-> ExplicitCtor(mime, bytes, Ok), handles |-> closed]

\* fromFile: the response returned and the set of open file handles it leaves
fromFile(handles, fileName) ==
    IF ~fileExists(fileName)
    THEN [response |-> StatusCtor(NotFound), handles |-> handles]
    ELSE LET opened == handles \cup {fileName}
             bytes == readAll(fileName)
             closed == opened \ {fileName}
             mime == mimeTypeForFileNameAndData(fileName, bytes)
         IN [response |-> ExplicitCtor(mime, bytes, Ok), handles |-> closed]

\* ---------------------------------------------------------------- write
\* the responder: the state of its socket and the calls made on it so far
writeStatusLine(responder, status) ==
    [responder EXCEPT !.calls = Append(@, <<"writeStatusLine", status>>)]
writeHeader(responder, name, value) ==
    [responder EXCEPT !.calls = Append(@, <<"writeHeader", name, value>>)]
writeBody(responder, bytes) ==
    [responder EXCEPT !.calls = Append(@, <<"writeBody", bytes>>)]

RECURSIVE writeHeaders(_, _, _)
writeHeaders(responder, h, i) ==
    IF i = end(h) THEN responder
    ELSE writeHeaders(writeHeader(responder, h[i][1], h[i][2]), h, i + 1)

\* variant: Content-Length is written before the stored headers
write_lengthFirst(d, responder) ==
    IF responder.state # ConnectedState THEN responder
    ELSE LET r1 == writeStatusLine(responder, d.statusCode)
             r2 == writeHeader(r1, contentLengthHeader, number(Len(d.data)))
             r3 == writeHeaders(r2, d.headers, 1)
         IN writeBody(r3, d.data)

\* variant: the state of the socket is not looked at
write_noStateCheck(d, responder) ==
    LET r1 == writeStatusLine(responder, d.statusCode)
        r2 == writeHeaders(r1, d.headers, 1)
        r3 == writeHeader(r2, contentLengthHeader, number(Len(d.data)))
    IN writeBody(r3, d.data)

write(d, responder) ==
    IF responder.state # ConnectedState THEN responder
    ELSE LET r1 == writeStatusLine(responder, d.statusCode)
             r2 == writeHeaders(r1, d.headers, 1)
             r3 == writeHeader(r2, contentLengthHeader, number(Len(d.data)))
         IN writeBody(r3, d.data)

\* ------------------------------------------------------ move operations
moveConstruct(dp, dst, src) == [dp EXCEPT ![dst] = dp[src], ![src] = NullPtr]

\* variant: the pointer is copied, not swapped
moveAssign_copy(dp, dst, src) == [dp EXCEPT ![dst] = dp[src]]

moveAssign(dp, dst, src) ==
    IF dst = src THEN dp
    ELSE [dp EXCEPT ![dst] = dp[src], ![src] = dp[dst]]

\* ===================================================================
\* The program state
\* ===================================================================
VARIABLES
    live,         \* live[r]: response object r is constructed, not destroyed
    d_ptr,        \* d_ptr[r]: the private object r owns, or NullPtr
    heap,         \* heap[p]: the QHttpServerResponsePrivate at address p
    hist,         \* hist[p]: how heap[p] was constructed, and whether its
                  \*          headers were mutated since
    socketState,  \* responder.socket()->state()
    wire,         \* the calls made on the responder
    written,      \* the responder was handed to write()
    openFiles,    \* file handles currently open
    result,       \* what the last query returned
    fault,        \* a null d_ptr was dereferenced
    lastOp        \* the call that produced this state, with its arguments

vars == <<live, d_ptr, heap, hist, socketState, wire, written, openFiles,
          result, fault, lastOp>>

Slots == 1..NumSlots
OneResponse == {1}

Free == [data |-> << >>, statusCode |-> 0, headers |-> << >>]
NoHist == [ctor |-> "", mime |-> "", bytes |-> << >>, status |-> 0,
           mutated |-> FALSE]
NoOp == [op |-> "", r |-> 0, src |-> 0, name |-> "", value |-> "",
         list |-> << >>, bytes |-> << >>, status |-> 0, count |-> 0]
NoResult == "void"

Op(op, r) == [NoOp EXCEPT !.op = op, !.r = r]

Init ==
    /\ live = [r \in Slots |-> FALSE]
    /\ d_ptr = [r \in Slots |-> NullPtr]
    /\ heap = [p \in Slots |-> Free]
    /\ hist = [p \in Slots |-> NoHist]
    /\ socketState \in SocketStates
    /\ wire = << >>
    /\ written = FALSE
    /\ openFiles = {}
    /\ result = NoResult
    /\ fault = FALSE
    /\ lastOp = NoOp

\* operator new: the lowest free address
NewAddress == CHOOSE p \in Slots : heap[p] = Free /\ \A q \in 1..(p - 1) : heap[q] # Free

\* r is a live response that owns a private object, in a running program
Valid(r) == ~fault /\ live[r] /\ d_ptr[r] # NullPtr
D(r) == heap[d_ptr[r]]

\* ------------------------------------------------------ construction
Construct(r, d, h, op) ==
    /\ ~fault
    /\ ~live[r]
    /\ ~written
    /\ live' = [live EXCEPT ![r] = TRUE]
    /\ d_ptr' = [d_ptr EXCEPT ![r] = NewAddress]
    /\ heap' = [heap EXCEPT ![NewAddress] = d]
    /\ hist' = [hist EXCEPT ![NewAddress] = h]
    /\ result' = NoResult
    /\ lastOp' = op
    /\ UNCHANGED <<socketState, wire, written, fault>>

ConstructStatus(r, status) ==
    /\ Construct(r, StatusCtor(status),
                 [NoHist EXCEPT !.ctor = "status", !.mime = contentTypeXEmpty,
                                !.status = status],
                 [Op("QHttpServerResponse(status)", r) EXCEPT !.status = status])
    /\ UNCHANGED openFiles

ConstructBytes(r, bytes) ==
    /\ Construct(r, ByteArrayCtor(bytes),
                 [NoHist EXCEPT !.ctor = "bytes", !.mime = mimeTypeForData(bytes),
                                !.bytes = bytes, !.status = Ok],
                 [Op("QHttpServerResponse(data)", r) EXCEPT !.bytes = bytes])
    /\ UNCHANGED openFiles

ConstructExplicit(r, mime, bytes, status) ==
    /\ Construct(r, ExplicitCtor(mime, bytes, status),
                 [NoHist EXCEPT !.ctor = "explicit", !.mime = mime,
                                !.bytes = bytes, !.status = status],
                 [Op("QHttpServerResponse(mimeType,data,status)", r)
                      EXCEPT !.value = mime, !.bytes = bytes, !.status = status])
    /\ UNCHANGED openFiles

FromFile(r, fileName) ==
    LET ret == fromFile(openFiles, fileName)
    IN /\ Construct(r, ret.response,
                    [NoHist EXCEPT !.ctor = "file",
                                   !.mime = mimeType(ret.response),
                                   !.bytes = ret.response.data,
                                   !.status = ret.response.statusCode],
                    [Op("fromFile", r) EXCEPT !.name = fileName])
       /\ openFiles' = ret.handles

Destroy(r) ==
    /\ ~fault
    /\ live[r]
    /\ live' = [live EXCEPT ![r] = FALSE]
    /\ d_ptr' = [d_ptr EXCEPT ![r] = NullPtr]
    /\ heap' = [p \in Slots |-> IF p = d_ptr[r] THEN Free ELSE heap[p]]
    /\ hist' = [p \in Slots |-> IF p = d_ptr[r] THEN NoHist ELSE hist[p]]
    /\ result' = NoResult
    /\ lastOp' = Op("~QHttpServerResponse", r)
    /\ UNCHANGED <<socketState, wire, written, openFiles, fault>>

\* ------------------------------------------------- header mutation
Mutate(r, d, op) ==
    /\ Valid(r)
    /\ ~written
    /\ Len(d.headers) <= MaxHeaders
    /\ heap' = [heap EXCEPT ![d_ptr[r]] = d]
    /\ hist' = [hist EXCEPT ![d_ptr[r]].mutated = TRUE]
    /\ result' = NoResult
    /\ lastOp' = op
    /\ UNCHANGED <<live, d_ptr, socketState, wire, written, openFiles, fault>>

AddHeader(r, name, value) ==
    Mutate(r, addHeader(D(r), name, value),
           [Op("addHeader", r) EXCEPT !.name = name, !.value = value,
                                      !.count = Len(headers(D(r), name))])

AddHeaders(r, list) ==
    Mutate(r, addHeaders(D(r), list), [Op("addHeaders", r) EXCEPT !.list = list])

ClearHeader(r, name) ==
    Mutate(r, clearHeader(D(r), name), [Op("clearHeader", r) EXCEPT !.name = name])

ClearHeaders(r) ==
    Mutate(r, clearHeaders(D(r)),
           [Op("clearHeaders", r) EXCEPT !.count = Len(D(r).headers)])

SetHeader(r, name, value) ==
    Mutate(r, setHeader(D(r), name, value),
           [Op("setHeader", r) EXCEPT !.name = name, !.value = value,
                                      !.count = Len(headers(D(r), name))])

SetHeaders(r, list) ==
    Mutate(r, setHeaders(D(r), list), [Op("setHeaders", r) EXCEPT !.list = list])

\* ------------------------------------------------------------ queries
Query(r, res, op) ==
    /\ Valid(r)
    /\ ~written
    /\ result' = res
    /\ lastOp' = op
    /\ UNCHANGED <<live, d_ptr, heap, hist, socketState, wire, written,
                   openFiles, fault>>

Headers(r, name) ==
    Query(r, headers(D(r), name), [Op("headers", r) EXCEPT !.name = name])

MimeType(r) == Query(r, mimeType(D(r)), Op("mimeType", r))

\* ------------------------------------------------------ serialization
Write(r) ==
    LET responder == write(D(r), [state |-> socketState, calls |-> wire])
    IN /\ Valid(r)
       /\ ~written
       /\ wire' = responder.calls
       /\ written' = TRUE
       /\ result' = NoResult
       /\ lastOp' = Op("write", r)
       /\ UNCHANGED <<live, d_ptr, heap, hist, socketState, openFiles, fault>>

\* the next responder, with nothing written to it yet
NewResponder ==
    /\ written
    /\ wire' = << >>
    /\ written' = FALSE
    /\ result' = NoResult
    /\ lastOp' = Op("QHttpServerResponder", 0)
    /\ UNCHANGED <<live, d_ptr, heap, hist, socketState, openFiles, fault>>

\* the peer or the server changes the state of the socket
SocketStateChange(s) ==
    /\ s # socketState
    /\ socketState' = s
    /\ result' = NoResult
    /\ lastOp' = [Op("stateChanged", 0) EXCEPT !.value = s]
    /\ UNCHANGED <<live, d_ptr, heap, hist, wire, written, openFiles, fault>>

\* --------------------------------------------------------------- moves
MoveConstruct(dst, src) ==
    /\ ~fault
    /\ dst # src
    /\ ~live[dst]
    /\ live[src]
    /\ live' = [live EXCEPT ![dst] = TRUE]
    /\ d_ptr' = moveConstruct(d_ptr, dst, src)
    /\ result' = NoResult
    /\ lastOp' = [Op("QHttpServerResponse(&&)", dst) EXCEPT !.src = src]
    /\ UNCHANGED <<heap, hist, socketState, wire, written, openFiles, fault>>

MoveAssign(dst, src) ==
    /\ ~fault
    /\ live[dst]
    /\ live[src]
    /\ d_ptr' = moveAssign(d_ptr, dst, src)
    /\ result' = NoResult
    /\ lastOp' = [Op("operator=(&&)", dst) EXCEPT !.src = src]
    /\ UNCHANGED <<live, heap, hist, socketState, wire, written, openFiles,
                   fault>>

\* Q_D on a response whose d_ptr is null: undefined behaviour, which either
\* crashes or goes on with a value nobody stored
DerefNull(r) ==
    /\ ~fault
    /\ live[r]
    /\ d_ptr[r] = NullPtr
    /\ fault' \in BOOLEAN
    /\ result' = "garbage"
    /\ lastOp' = Op("Q_D(null)", r)
    /\ UNCHANGED <<live, d_ptr, heap, hist, socketState, wire, written,
                   openFiles>>

\* ===================================================================
\* One response built, mutated, queried and written by a handler
\* ===================================================================
Next ==
    \/ \E r \in OneResponse, status \in StatusCodes : ConstructStatus(r, status)
    \/ \E r \in OneResponse, bytes \in Bodies : ConstructBytes(r, bytes)
    \/ \E r \in OneResponse, mime \in MimeArgs, bytes \in Bodies,
          status \in StatusCodes : ConstructExplicit(r, mime, bytes, status)
    \/ \E r \in OneResponse, fileName \in FileNames : FromFile(r, fileName)
    \/ \E r \in OneResponse, p \in Pairs : AddHeader(r, p[1], p[2])
    \/ \E r \in OneResponse, list \in HeaderLists : AddHeaders(r, list)
    \/ \E r \in OneResponse, name \in Names : ClearHeader(r, name)
    \/ \E r \in OneResponse : ClearHeaders(r)
    \/ \E r \in OneResponse, p \in Pairs : SetHeader(r, p[1], p[2])
    \/ \E r \in OneResponse, list \in HeaderLists : SetHeaders(r, list)
    \/ \E r \in OneResponse, name \in Names : Headers(r, name)
    \/ \E r \in OneResponse : MimeType(r)
    \/ \E r \in OneResponse : Write(r)
    \/ NewResponder
    \/ \E s \in SocketStates : SocketStateChange(s)
    \/ \E r \in OneResponse : Destroy(r)

Spec == Init /\ [][Next]_vars

\* ===================================================================
\* Several responses moved into one another
\* ===================================================================
MoveNext ==
    \/ \E r \in Slots, mime \in MimeArgs, bytes \in Bodies :
           ConstructExplicit(r, mime, bytes, Ok)
    \/ \E r \in Slots : SetHeader(r, "X-A", "1")
    \/ \E dst \in Slots, src \in Slots : MoveConstruct(dst, src)
    \/ \E dst \in Slots, src \in Slots : MoveAssign(dst, src)
    \/ \E r \in Slots : DerefNull(r)
    \/ \E r \in Slots : Destroy(r)

MoveSpec == Init /\ [][MoveNext]_vars

\* ===================================================================
\* Properties
\* ===================================================================
AllValues == {p[2] : p \in Pairs} \cup MimeArgs \cup
             {contentTypeXEmpty, contentTypeTextHtml, "text/plain",
              "application/x-zerosize"}
NamesOf(list) == {list[i][1] : i \in 1..Len(list)}
IsMoveCtor(op) == op.op = "QHttpServerResponse(&&)"
IsMoveAssign(op) == op.op = "operator=(&&)" /\ op.src # op.r

\* C1: write() on a connected responder calls writeStatusLine(statusCode),
\* then writeHeader for every stored entry in the order of the collection
\* (duplicates kept), then writeHeader(Content-Length, decimal size of the
\* body), after every stored header and also when the caller stored a
\* Content-Length of their own, then writeBody(body), and nothing else.
C1_WriteSequence ==
    (lastOp.op = "write" /\ socketState = ConnectedState) =>
        LET d == D(lastOp.r)
            n == Len(d.headers)
        IN /\ Len(wire) = n + 3
           /\ wire[1] = <<"writeStatusLine", d.statusCode>>
           /\ \A i \in 1..n :
                  wire[i + 1] = <<"writeHeader", d.headers[i][1], d.headers[i][2]>>
           /\ wire[n + 2][1] = "writeHeader"
           /\ wire[n + 2][2] = contentLengthHeader
           /\ Len(d.data) = 0 => wire[n + 2][3] = "0"
           /\ Len(d.data) = 5 => wire[n + 2][3] = "5"
           /\ Len(d.data) = 12 => wire[n + 2][3] = "12"
           /\ wire[n + 3] = <<"writeBody", d.data>>

C1_Witness ==
    /\ lastOp.op = "write"
    /\ socketState = ConnectedState
    /\ Len(wire) = MaxHeaders + 3
    /\ Len(D(lastOp.r).data) = 12
    /\ hasHeader(D(lastOp.r), contentLengthHeader)
    /\ Len(headers(D(lastOp.r), "X-A")) >= 2

\* C2: write() on a responder whose socket is not connected makes no call on
\* the responder, raises no fault and leaves the response as it was.
C2_NotConnectedSilent ==
    [][(lastOp'.op = "write" /\ socketState # ConnectedState) =>
           /\ wire' = << >>
           /\ heap' = heap
           /\ d_ptr' = d_ptr
           /\ live' = live
           /\ fault' = FALSE]_vars

C2_Witness ==
    /\ lastOp.op = "write"
    /\ socketState # ConnectedState
    /\ wire = << >>
    /\ Len(D(lastOp.r).headers) >= 2
    /\ D(lastOp.r).data # << >>

\* C3 as stated: the pairs of one setHeaders batch do not clear each other;
\* each clears only the entries stored before the batch, so the collection
\* afterwards is the old entries under other names followed by the whole list.
C3_Original ==
    [][lastOp'.op = "setHeaders" =>
           LET r == lastOp'.r
               list == lastOp'.list
           IN heap'[d_ptr'[r]].headers =
                  SelectSeq(heap[d_ptr[r]].headers,
                            LAMBDA e : e[1] \notin NamesOf(list)) \o list]_vars

\* the pairs of a batch that are the last of their name, in list order
RECURSIVE LastOfName(_)
LastOfName(list) ==
    IF list = << >> THEN << >>
    ELSE IF \E j \in 2..Len(list) : list[j][1] = Head(list)[1]
         THEN LastOfName(Tail(list))
         ELSE <<Head(list)>> \o LastOfName(Tail(list))

\* C3 amended: setHeaders applies setHeader pair by pair, left to right, so a
\* pair also clears what earlier pairs of the batch stored under its name:
\* afterwards every name of the list holds exactly the value of its last pair
\* and the entries under the other names are unchanged.
C3_LastPairWins ==
    [][lastOp'.op = "setHeaders" =>
           LET r == lastOp'.r
               list == lastOp'.list
               before == heap[d_ptr[r]]
               after == heap'[d_ptr'[r]]
           IN /\ after.headers =
                     SelectSeq(before.headers,
                               LAMBDA e : e[1] \notin NamesOf(list))
                         \o LastOfName(list)
              /\ \A n \in Names :
                     IF n \in NamesOf(list)
                     THEN /\ Len(headers(after, n)) = 1
                          /\ \E i \in 1..Len(list) :
                                 /\ list[i] = <<n, headers(after, n)[1]>>
                                 /\ \A j \in (i + 1)..Len(list) : list[j][1] # n
                     ELSE headers(after, n) = headers(before, n)
              /\ after.data = before.data
              /\ after.statusCode = before.statusCode]_vars

C3_Witness ==
    /\ lastOp.op = "setHeaders"
    /\ Len(lastOp.list) = 2
    /\ lastOp.list[1][1] = lastOp.list[2][1]
    /\ lastOp.list[1][2] # lastOp.list[2][2]
    /\ headers(D(lastOp.r), lastOp.list[1][1]) = <<lastOp.list[2][2]>>
    /\ Len(D(lastOp.r).headers) >= 2

\* C4: after setHeader(name, v) the values stored under name are exactly
\* <<v>>, whatever was stored under it before, and every other name holds
\* the same values in the same order as before.
C4_SetHeaderReplaces ==
    [][lastOp'.op = "setHeader" =>
           LET r == lastOp'.r
               before == heap[d_ptr[r]]
               after == heap'[d_ptr'[r]]
           IN /\ headers(after, lastOp'.name) = <<lastOp'.value>>
              /\ \A n \in Names \ {lastOp'.name} :
                     headers(after, n) = headers(before, n)]_vars

C4_Witness ==
    /\ lastOp.op = "setHeader"
    /\ lastOp.count >= 2
    /\ headers(D(lastOp.r), lastOp.name) = <<lastOp.value>>
    /\ Len(D(lastOp.r).headers) >= 2

\* C5: addHeader(name, value) removes and replaces nothing: the values under
\* name are the previous ones with value appended at the end, the collection
\* has one entry more, and every other name holds what it held.
C5_AddHeaderAppends ==
    [][lastOp'.op = "addHeader" =>
           LET r == lastOp'.r
               before == heap[d_ptr[r]]
               after == heap'[d_ptr'[r]]
           IN /\ headers(after, lastOp'.name) =
                     Append(headers(before, lastOp'.name), lastOp'.value)
              /\ Len(after.headers) = Len(before.headers) + 1
              /\ \A n \in Names \ {lastOp'.name} :
                     headers(after, n) = headers(before, n)]_vars

C5_Witness ==
    /\ lastOp.op = "addHeader"
    /\ lastOp.count >= 2
    /\ Len(headers(D(lastOp.r), lastOp.name)) = lastOp.count + 1
    /\ headers(D(lastOp.r), lastOp.name)[lastOp.count + 1] = lastOp.value

\* no private object is owned by two live responses
NoDoubleOwner ==
    \A a, b \in Slots :
        (a # b /\ live[a] /\ live[b] /\ d_ptr[a] # NullPtr) => d_ptr[a] # d_ptr[b]

C7_ContentTypeFromConstructor ==
    \A r \in Slots :
        (Valid(r) /\ ~hist[d_ptr[r]].mutated) =>
            LET d == D(r)
                h == hist[d_ptr[r]]
            IN /\ headers(d, contentTypeHeader) \in {<< >>, <<h.mime>>}
               /\ h.ctor = "explicit" =>
                      /\ (h.mime = "") = ~hasHeader(d, contentTypeHeader)
                      /\ h.mime # "" => d.headers = <<<<contentTypeHeader, h.mime>>>>
                      /\ statusCode(d) = h.status
                      /\ data(d) = h.bytes

C7_Witness ==
    /\ lastOp.op = "QHttpServerResponse(mimeType,data,status)"
    /\ lastOp.value = ""
    /\ lastOp.status = NotFound
    /\ ~hasHeader(D(lastOp.r), contentTypeHeader)
    /\ D(lastOp.r).data = HelloWorld
    /\ D(lastOp.r).statusCode = NotFound

\* C8: clearHeaders() removes every entry: no name and no (name, value) is
\* found afterwards, the Content-Type of the constructor included, and the
\* status code and the body are what they were.
C8_ClearHeadersEmpties ==
    [][lastOp'.op = "clearHeaders" =>
           LET r == lastOp'.r
               before == heap[d_ptr[r]]
               after == heap'[d_ptr'[r]]
           IN /\ \A n \in Names :
                     /\ ~hasHeader(after, n)
                     /\ headers(after, n) = << >>
                     /\ \A v \in AllValues : ~hasHeader2(after, n, v)
              /\ statusCode(after) = statusCode(before)
              /\ data(after) = data(before)]_vars

C8_Witness ==
    /\ lastOp.op = "clearHeaders"
    /\ lastOp.count >= 2
    /\ D(lastOp.r).headers = << >>
    /\ D(lastOp.r).data # << >>
    /\ D(lastOp.r).statusCode = NotFound

\* C9: fromFile always returns a response and leaves no file handle open:
\* for a file that cannot be opened the response the status-code constructor
\* builds for 404 (empty body, the empty-content marker as Content-Type), for
\* a file that opens status 200, the bytes of the file as body and the MIME
\* type inferred from file name and content as Content-Type.
C9_FromFile ==
    lastOp.op = "fromFile" =>
        LET d == D(lastOp.r)
            f == lastOp.name
        IN /\ Valid(lastOp.r)
           /\ ~fault
           /\ openFiles = {}
           /\ IF fileExists(f)
              THEN /\ statusCode(d) = Ok
                   /\ data(d) = readAll(f)
                   /\ headers(d, contentTypeHeader) =
                          <<mimeTypeForFileNameAndData(f, readAll(f))>>
              ELSE /\ statusCode(d) = NotFound
                   /\ data(d) = << >>
                   /\ headers(d, contentTypeHeader) = <<contentTypeXEmpty>>
                   /\ d = StatusCtor(NotFound)

C9_Witness ==
    /\ lastOp.op = "fromFile"
    /\ ~fileExists(lastOp.name)
    /\ D(lastOp.r).statusCode = NotFound
    /\ openFiles = {}

\* C10: mimeType() changes nothing and its result is determined by the
\* header collection: a stored Content-Type value when one is stored, the
\* default "text/html" when none is, and the same value again when it is
\* called again with no mutation in between.
C10_MimeTypeQuery ==
    [][lastOp'.op = "mimeType" =>
           LET d == heap[d_ptr[lastOp'.r]]
               stored == headers(d, contentTypeHeader)
           IN /\ heap' = heap
              /\ hist' = hist
              /\ d_ptr' = d_ptr
              /\ live' = live
              /\ wire' = wire
              /\ IF stored = << >>
                 THEN result' = "text/html"
                 ELSE \E i \in 1..Len(stored) : result' = stored[i]
              /\ (lastOp.op = "mimeType" /\ lastOp.r = lastOp'.r) =>
                     result' = result]_vars

C10_Witness ==
    /\ lastOp.op = "mimeType"
    /\ result = "text/html"
    /\ hist[d_ptr[lastOp.r]].mutated
    /\ hist[d_ptr[lastOp.r]].mime = "image/png"
    /\ ~hasHeader(D(lastOp.r), contentTypeHeader)

====
